---- MODULE Spec2Model ----
(***************************************************************************)
(* Model of the tarantool-operator cluster reconciler                      *)
(* (controllers/cluster_controller.go) and of the built-in topology        *)
(* service client (controllers/topology/builtin.go).                       *)
(*                                                                         *)
(* One reconciliation pass (ClusterReconciler.Reconcile) is a sequence of  *)
(* steps, one per blocking call to the declared-state store or to the      *)
(* topology service.  The outcome of every such call is an input of the    *)
(* step.  The store (sts, pods, cluster) persists between passes; all      *)
(* other variables are local to the pass in flight.                        *)
(***************************************************************************)
EXTENDS Integers, Sequences, FiniteSets, TLC

\* ------------------------------------------------------------------ bounds
NumGroups == 2
MaxReplicas == 2
\* instances of the cluster, all groups together
MaxPods == 2
\* instances that carry an instance-UUID label before the first pass
MaxPreset == 1

\* time.Duration(5 * time.Second)
RequeueAfterSeconds == 5

Groups == 1..NumGroups
Indices == 0..(MaxReplicas - 1)
Pods == Groups \X Indices

\* ------------------------------------------------------------------- names
\* StatefulSet names; "a" is a string prefix of "ab".
Names == << <<"a">>, <<"a", "b">>, <<"b">>, <<"b", "a">> >>

GroupName(g) == Names[g]

\* fmt.Sprintf("%s-%d", sts.GetName(), i)
PodName(p) == GroupName(p[1]) \o <<"-", p[2]>>

\* advURI of Join: "<pod>.<cluster>.<namespace>.svc.<domain>:3301"
AdvURI(p) == PodName(p) \o <<".", "svc", 3301>>

\* utils.MakeStaticPodAddr(podName, svcName, namespace, domainName, 8081)
MakeStaticPodAddr(name) == name \o <<".", "svc", 8081>>

\* strings.HasPrefix
HasPrefix(s, prefix) ==
    /\ Len(prefix) <= Len(s)
    /\ SubSeq(s, 1, Len(prefix)) = prefix

\* uuid.NewSHA1(space, []byte(name)): a function of the name alone
NewSHA1(name) == <<"sha1", name>>

NoUUID == <<>>
PresetUUID == <<"preset">>
NoAddr == <<>>

\* ----------------------------------------------------------------- weights
Digits == <<"0", "1", "2", "3", "4", "5", "6", "7", "8", "9">>

IsDigit(c) == \E d \in 1..Len(Digits) : Digits[d] = c

DigitValue(c) == (CHOOSE d \in 1..Len(Digits) : Digits[d] = c) - 1

\* the value of a digit string as <<high, low>> 16-bit halves; the high
\* half saturates at 2^16, which is where the value leaves 32 bits
Half == 2^16

RECURSIVE DecimalValue(_)
DecimalValue(s) ==
    IF Len(s) = 0 THEN <<0, 0>>
    ELSE LET v == DecimalValue(SubSeq(s, 1, Len(s) - 1))
             low == v[2] * 10 + DigitValue(s[Len(s)])
             high == v[1] * 10 + (low \div Half)
         IN  <<IF high > Half THEN Half ELSE high, low % Half>>

ParseUintOK_nonempty(s) == Len(s) > 0

\* strconv.ParseUint(replicaWeight, 10, 32) returns no error
ParseUintOK(s) ==
    /\ Len(s) > 0
    /\ \A k \in 1..Len(s) : IsDigit(s[k])
    /\ DecimalValue(s)[1] < Half

\* values of the annotation tarantool.io/replicaset-weight; <<>> is the
\* empty string a missing annotation reads as
WeightValues == { <<"0">>, <<"1">>, <<>>, <<"a", "b", "c">>, <<"-", "1">> }

DrainWeight == <<"0">>

\* ------------------------------------------------------------------ inputs
GetOutcomes == {"ok", "notfound", "err"}
WriteOutcomes == {"ok", "fail"}

JoinPhrases == {"already joined", "This instance isn't bootstrapped yet"}

\* what client.Run of the join mutation hands back: an error whose text
\* holds some of the recognised phrases, or a decoded joinInstanceResponse
JoinResponses ==
    [err : {TRUE}, phrases : SUBSET JoinPhrases, joinInstance : {FALSE}]
        \cup [err : {FALSE}, phrases : {{}}, joinInstance : BOOLEAN]

\* ------------------------------------------------------------------- state
VARIABLES
    sts,         \* store: the StatefulSets of the cluster, in list order
    pods,        \* store: the Pods, by (group, index)
    cluster,     \* store: the Cluster object
    pc,          \* position of the pass in flight
    gi,          \* group the pass is at
    pi,          \* pod index the pass is at
    mem,         \* stsList of the pass (annotation maps are shared by the loops)
    stsWritten,  \* groups whose StatefulSet the weight stage wrote in this pass
    stats,       \* answer of GetServerStat the pass is looking at
    clientAddr,  \* address the topology client of the pass is bound to
    result,      \* (ctrl.Result, error) the pass returned
    log          \* what the pass did so far

vars == <<sts, pods, cluster, pc, gi, pi, mem, stsWritten, stats, clientAddr,
          result, log>>

store == <<sts, pods, cluster>>

Replicas(g) == mem[g].replicas

ExistingPods == {p \in Pods : p[2] < sts[p[1]].replicas}

PodsOf(g) == {p \in ExistingPods : p[1] = g}

\* ---------------------------------------------------------- pass outcomes
\* ctrl.Result{}, nil
ResDone == [requeue |-> FALSE, after |-> 0, err |-> FALSE]
\* ctrl.Result{Requeue: true}, nil
ResRequeue == [requeue |-> TRUE, after |-> 0, err |-> FALSE]
\* ctrl.Result{RequeueAfter: 5s}, nil
ResAfter == [requeue |-> FALSE, after |-> RequeueAfterSeconds, err |-> FALSE]
\* ctrl.Result{RequeueAfter: 5s}, err
ResErrAfter == [requeue |-> FALSE, after |-> RequeueAfterSeconds, err |-> TRUE]
\* ctrl.Result{}, err
ResErr == [requeue |-> FALSE, after |-> 0, err |-> TRUE]

\* ------------------------------------------------------------ pass log
\* the last step of the pass: the operation, the object it was about, the
\* classified outcome of the call, and the outcomes of the store writes
Event(op, g, i, out, write, status) ==
    [op |-> op, g |-> g, i |-> i, out |-> out, write |-> write, status |-> status]

NoEvent == Event("none", 0, 0, "none", "none", "none")

\* the group the weight stage is at
NoGroup ==
    [ g      |-> 0,
      stat   |-> "none",  \* GetServerStat: "none", "err" or "ok"
      marked |-> FALSE,   \* scheduledDelete was set in memory
      stored |-> FALSE,   \* ... and a write of it succeeded
      failed |-> FALSE,   \* ... and a write of it failed
      calls  |-> {},      \* topology calls made for the group
      wread  |-> {} ]     \* pods the joined check read with the marker

EmptyLog ==
    [ ev       |-> NoEvent,
      joinRes  |-> [p \in Pods |-> "none"],  \* outcome of Join per pod
      assigned |-> {},    \* pods whose instance UUID the pass stored
      boots    |-> 0,     \* calls of BootstrapVshard
      cur      |-> NoGroup ]

\* pods whose joined marker the pass stored
MarkedInPass ==
    {p \in Pods : log.joinRes[p] \in {"ok", "already"} /\ pods[p].joined}

\* values of the annotation tarantool.io/topology-leader before the first
\* pass: absent, or the address of instance zero of a group
CachedLeaders ==
    {NoAddr} \cup {MakeStaticPodAddr(PodName(<<g, 0>>)) : g \in Groups}

\* ------------------------------------------------------------------ Init
Init ==
    /\ sts \in [Groups -> [replicas : 0..MaxReplicas,
                           weight : WeightValues,
                           scheduledDelete : {""},
                           isBootstrapped : {""},
                           failoverEnabled : {""}]]
    /\ Cardinality({p \in Pods : p[2] < sts[p[1]].replicas}) <= MaxPods
    /\ pods \in [Pods -> [uuid : {NoUUID, PresetUUID}, joined : {FALSE}]]
    /\ \A p \in Pods : p[2] >= sts[p[1]].replicas => pods[p].uuid = NoUUID
    /\ Cardinality({p \in Pods : pods[p].uuid = PresetUUID}) <= MaxPreset
    /\ cluster \in [leader : CachedLeaders, state : {""}]
    /\ pc = "idle"
    /\ gi = 0
    /\ pi = 0
    /\ mem = sts
    /\ stsWritten = {}
    /\ stats = <<>>
    /\ clientAddr = NoAddr
    /\ result = ResDone
    /\ log = EmptyLog

\* --------------------------------------------------------------- control
Goto(pos) ==
    /\ pc' = pos.pc
    /\ gi' = pos.gi
    /\ pi' = pos.pi

\* a run-time panic in the pass: the process terminates
Crash ==
    /\ pc' = "crashed"
    /\ gi' = 0
    /\ pi' = 0
    /\ UNCHANGED result

Return(res) ==
    /\ pc' = "done"
    /\ gi' = 0
    /\ pi' = 0
    /\ result' = res

At(label, g, i) == [pc |-> label, gi |-> g, pi |-> i]

\* for _, sts := range stsList.Items  (bootstrap and failover)
BootPos(g) == At("boot", g, 0)

\* the role loop hands over to the last SetWeight instead of the bootstrap loop
RolePos_back(g) ==
    IF g > NumGroups THEN At("setweight", NumGroups, 0) ELSE At("role", g, 0)

\* for _, sts := range stsList.Items  (roles)
RolePos(g) == IF g > NumGroups THEN BootPos(1) ELSE At("role", g, 0)

\* for i := 0; i < int(*sts.Spec.Replicas); i++  (joined check of the weight stage)
WPodPos(g) == IF Replicas(g) = 0 THEN At("setweight", g, 0) ELSE At("wpod", g, 0)

\* for _, sts := range stsList.Items  (weight)
WeightPos(g) ==
    IF g > NumGroups THEN RolePos(1)
    ELSE IF mem[g].weight = DrainWeight THEN At("weight", g, 0)
    ELSE WPodPos(g)

\* for _, sts := range stsList.Items  (instance UUID, then join, per group)
RECURSIVE UUIDPos(_)
UUIDPos(g) ==
    IF g > NumGroups THEN WeightPos(1)
    ELSE IF Replicas(g) = 0 THEN UUIDPos(g + 1)
    ELSE At("uuid", g, 0)

AfterUUID(g, i) ==
    IF i + 1 < Replicas(g) THEN At("uuid", g, i + 1) ELSE At("join", g, 0)

AfterJoin(g, i) ==
    IF i + 1 < Replicas(g) THEN At("join", g, i + 1) ELSE UUIDPos(g + 1)

\* ------------------------------------------------------------- StartPass
\* Reconcile up to the list of StatefulSets: the Cluster is read, the roles
\* are adopted, the cluster-wide Service is ensured, the StatefulSets listed.
\* A pass starts when none is in flight, also after the process was
\* restarted.
StartPass ==
    /\ pc \in {"idle", "done", "crashed"}
    /\ \E outcome \in GetOutcomes :
        /\ mem' = sts
        /\ stsWritten' = {}
        /\ stats' = <<>>
        /\ clientAddr' = NoAddr
        /\ log' = [EmptyLog EXCEPT
                      !.ev = Event("List", 0, 0, outcome, "none", "none")]
        /\ CASE outcome = "ok" -> /\ pc' = "leader"
                                   /\ gi' = 0
                                   /\ pi' = 0
                                   /\ result' = ResDone
             [] outcome = "notfound" -> Return(ResAfter)
             [] outcome = "err" -> Return(ResErrAfter)
    /\ UNCHANGED store

\* ---------------------------------------------------------------- leader
NonEmptyGroups == {g \in Groups : Replicas(g) # 0}

LeaderAddr(g) == MakeStaticPodAddr(PodName(<<g, 0>>))

\* IsTopologyLeaderExists: "true", "false", or "err" when the read of
\* instance zero of group failAt fails before a match is found
RECURSIVE LeaderExistsFrom(_, _, _)
LeaderExistsFrom(g, leader, failAt) ==
    IF g > NumGroups THEN "false"
    ELSE IF Replicas(g) = 0 THEN LeaderExistsFrom(g + 1, leader, failAt)
    ELSE IF g = failAt THEN "err"
    ELSE IF LeaderAddr(g) = leader THEN "true"
    ELSE LeaderExistsFrom(g + 1, leader, failAt)

\* the first non-empty group decides
IsTopologyLeaderExists_first(leader, failAt) ==
    IF NonEmptyGroups = {} THEN "false"
    ELSE LET g == CHOOSE x \in NonEmptyGroups : \A h \in NonEmptyGroups : x <= h
         IN  IF g = failAt THEN "err"
             ELSE IF LeaderAddr(g) = leader THEN "true"
             ELSE "false"

IsTopologyLeaderExists(leader, failAt) == LeaderExistsFrom(1, leader, failAt)

ValidateLeader ==
    /\ pc = "leader"
    /\ \E failAt \in 0..NumGroups :
        LET exist == IsTopologyLeaderExists(cluster.leader, failAt) IN
        /\ log' = [log EXCEPT
                      !.ev = Event("IsTopologyLeaderExists", 0, 0, exist, "none", "none")]
        /\ CASE exist = "err" -> Return(ResAfter) /\ UNCHANGED clientAddr
             [] exist = "true" -> /\ Goto(UUIDPos(1))
                                  /\ clientAddr' = cluster.leader
                                  /\ UNCHANGED result
             [] exist = "false" -> /\ Goto(At("select", 0, 0))
                                   /\ UNCHANGED <<result, clientAddr>>
    /\ UNCHANGED <<store, mem, stsWritten, stats>>

\* SelectTopologyLeader: instance zero of the first non-empty group, read
\* from the store; err when there is no such group or the read fails
SelectTopologyLeader(get) ==
    IF NonEmptyGroups = {} \/ get # "ok"
    THEN [g |-> 0, addr |-> NoAddr, err |-> TRUE]
    ELSE LET first == CHOOSE g \in NonEmptyGroups :
                          \A h \in NonEmptyGroups : g <= h
         IN  [g |-> first, addr |-> LeaderAddr(first), err |-> FALSE]

SelectFailed_never(sel) == FALSE

\* newLeader, err := SelectTopologyLeader(r, stsList); if err != nil
SelectFailed(sel) == sel.err

\* SelectTopologyLeader, the write of the leader annotation, and the
\* construction of the topology client from the address read before
SelectLeader ==
    /\ pc = "select"
    /\ \E get \in GetOutcomes, upd \in WriteOutcomes :
        LET sel == SelectTopologyLeader(get)
            out == IF sel.err THEN "err" ELSE "ok"
        IN
        IF SelectFailed(sel)
        THEN /\ Return(ResAfter)
             /\ log' = [log EXCEPT
                           !.ev = Event("SelectTopologyLeader", 0, 0, out, "none", "none")]
             /\ UNCHANGED <<cluster, clientAddr>>
        ELSE /\ log' = [log EXCEPT
                           !.ev = Event("SelectTopologyLeader", sel.g, 0, out, upd, "none")]
             /\ IF upd = "ok"
                THEN /\ cluster' = [cluster EXCEPT !.leader = sel.addr]
                     /\ clientAddr' = cluster.leader
                     /\ Goto(UUIDPos(1))
                     /\ UNCHANGED result
                ELSE /\ Return(ResErr)
                     /\ UNCHANGED <<cluster, clientAddr>>
    /\ UNCHANGED <<sts, pods, mem, stsWritten, stats>>

\* ------------------------------------------------------- instance UUIDs
HasInstanceUUID_never(pod) == FALSE

HasInstanceUUID(pod) == pod.uuid # NoUUID

SetInstanceUUID(p, pod) == [pod EXCEPT !.uuid = NewSHA1(PodName(p))]

\* o.Labels of a pod without the instance-UUID label: a nil map, or a map
\* with other labels
LabelMaps == {"nil", "map"}

\* labels["tarantool.io/instance-uuid"] = ... is an assignment to an entry
\* of a nil map when the pod has no labels
SetInstanceUUIDPanics(labels) == labels = "nil"

AssignResult_after(upd) == IF upd = "ok" THEN ResAfter ELSE ResErrAfter

\* what the pass returns after r.Update of the pod that got its UUID
AssignResult(upd) == IF upd = "ok" THEN ResRequeue ELSE ResErrAfter

AssignUUID ==
    /\ pc = "uuid"
    /\ LET p == <<gi, pi>> IN
       \E get \in GetOutcomes, upd \in WriteOutcomes, labels \in LabelMaps :
        CASE get # "ok" ->
              /\ Return(IF get = "notfound" THEN ResAfter ELSE ResErrAfter)
              /\ log' = [log EXCEPT !.ev = Event("Get", gi, pi, get, "none", "none")]
              /\ UNCHANGED pods
          [] get = "ok" ->
              IF HasInstanceUUID(pods[p])
              THEN /\ Goto(AfterUUID(gi, pi))
                   /\ log' = [log EXCEPT
                                 !.ev = Event("HasInstanceUUID", gi, pi, "true", "none", "none")]
                   /\ UNCHANGED <<pods, result>>
              ELSE IF SetInstanceUUIDPanics(labels)
              THEN /\ Crash
                   /\ log' = [log EXCEPT
                                 !.ev = Event("SetInstanceUUID", gi, pi, "panic", "none", "none")]
                   /\ UNCHANGED pods
              ELSE /\ log' = [log EXCEPT
                                 !.ev = Event("SetInstanceUUID", gi, pi, "ok", upd, "none"),
                                 !.assigned = IF upd = "ok" THEN @ \cup {p} ELSE @]
                   /\ Return(AssignResult(upd))
                   /\ pods' = IF upd = "ok"
                              THEN [pods EXCEPT ![p] = SetInstanceUUID(p, @)]
                              ELSE pods
    /\ UNCHANGED <<sts, cluster, mem, stsWritten, stats, clientAddr>>

\* ------------------------------------------------------------------ join
\* tarantool.IsJoined
IsJoined(pod) == pod.joined

\* tarantool.MarkJoined
MarkJoined(pod) == [pod EXCEPT !.joined = TRUE]

\* the phrases are looked for in the other order
Join_downFirst(pod, labelsOK, resp) ==
    IF ~labelsOK \/ ~HasInstanceUUID(pod) THEN "input"
    ELSE IF resp.err
    THEN IF "This instance isn't bootstrapped yet" \in resp.phrases THEN "down"
         ELSE IF "already joined" \in resp.phrases THEN "already"
         ELSE "err"
    ELSE IF resp.joinInstance THEN "ok"
    ELSE "err"

\* BuiltInTopologyService.Join: "input" when a label the request needs is
\* missing (no request is made), else the classification of the round trip
Join(pod, labelsOK, resp) ==
    IF ~labelsOK \/ ~HasInstanceUUID(pod) THEN "input"
    ELSE IF resp.err
    THEN IF "already joined" \in resp.phrases THEN "already"
         ELSE IF "This instance isn't bootstrapped yet" \in resp.phrases THEN "down"
         ELSE "err"
    ELSE IF resp.joinInstance THEN "ok"
    ELSE "err"

IsAlreadyJoined_never(out) == FALSE

\* IsAlreadyJoined(err) / IsTopologyDown(err)
IsAlreadyJoined(out) == out = "already"
IsTopologyDown(out) == out = "down"

\* the branches of Reconcile on the outcome of Join: whether the joined
\* marker is stored, and whether the pass goes on to the next instance
JoinMarks_down(out) == out = "ok" \/ IsAlreadyJoined(out) \/ IsTopologyDown(out)

JoinMarks_ok(out) == out = "ok"

JoinMarks(out) == out = "ok" \/ IsAlreadyJoined(out)

JoinContinues(out) == IsAlreadyJoined(out) \/ IsTopologyDown(out)

\* no round trip was made
NoJoinResponse == [err |-> FALSE, phrases |-> {}, joinInstance |-> FALSE]

\* a Join step, with what client.Run handed back when the request went out
JoinEvent(g, i, out, write, resp) ==
    [op |-> "Join", g |-> g, i |-> i, out |-> out, write |-> write,
     status |-> "none", resp |-> IF out = "input" THEN NoJoinResponse ELSE resp]

JoinSkips_never(pod) == FALSE

\* if tarantool.IsJoined(pod) { continue }
JoinSkips(pod) == IsJoined(pod)

JoinInstance ==
    /\ pc = "join"
    /\ LET p == <<gi, pi>> IN
       \E get \in GetOutcomes :
        CASE get # "ok" ->
              /\ Return(IF get = "notfound" THEN ResAfter ELSE ResErrAfter)
              /\ log' = [log EXCEPT !.ev = Event("Get", gi, pi, get, "none", "none")]
              /\ UNCHANGED pods
          [] get = "ok" ->
              IF JoinSkips(pods[p])
              THEN /\ Goto(AfterJoin(gi, pi))
                   /\ log' = [log EXCEPT
                                 !.ev = Event("IsJoined", gi, pi, "true", "none", "none")]
                   /\ UNCHANGED <<pods, result>>
              ELSE \E labelsOK \in BOOLEAN, resp \in JoinResponses,
                      upd \in WriteOutcomes :
                   LET out == Join(pods[p], labelsOK, resp)
                       write == IF JoinMarks(out) THEN upd ELSE "none"
                   IN  /\ log' = [log EXCEPT
                                     !.ev = JoinEvent(gi, pi, out, write, resp),
                                     !.joinRes[p] = out]
                       /\ pods' = IF write = "ok"
                                  THEN [pods EXCEPT ![p] = MarkJoined(@)]
                                  ELSE pods
                       /\ IF write = "fail"
                          THEN Return(ResErrAfter)
                          ELSE IF JoinContinues(out)
                          THEN Goto(AfterJoin(gi, pi)) /\ UNCHANGED result
                          ELSE Return(ResAfter)
    /\ UNCHANGED <<sts, cluster, mem, stsWritten, stats, clientAddr>>

\* ---------------------------------------------------------------- weight
BucketCounts == {0, 5}

Rank(p) == p[1] * MaxReplicas + p[2]

RECURSIVE SeqOfPods(_)
SeqOfPods(S) ==
    IF S = {} THEN <<>>
    ELSE LET first == CHOOSE x \in S : \A y \in S : Rank(x) <= Rank(y)
         IN  <<first>> \o SeqOfPods(S \ {first})

\* ServerStatData.Stats as the service answers: one entry per server, with
\* the URI the server was joined under and its bucket count
StatsOf(f) ==
    LET listed == SeqOfPods(DOMAIN f)
    IN  [k \in 1..Len(listed) |->
            [uri |-> AdvURI(listed[k]), bucketsCount |-> f[listed[k]]]]

StatResponses == {StatsOf(f) : f \in [ExistingPods -> BucketCounts]}

\* strings.HasPrefix(data.Stats[i].URI, sts.GetName())
StatMatches(entry, g) == HasPrefix(entry.uri, GroupName(g))

StatHits_nonzero(data, g) ==
    {k \in 1..Len(data) : StatMatches(data[k], g) /\ data[k].bucketsCount # 0}

\* the entries of the answer on which the group is marked for deletion
StatHits(data, g) ==
    {k \in 1..Len(data) : StatMatches(data[k], g) /\ data[k].bucketsCount = 0}

\* r.Update(&sts): the StatefulSet is stored with the annotations in memory
StoreSts(g, m) == [sts EXCEPT ![g] = m[g]]

\* the weight stage comes to group g
Arrive(g) == IF log.cur.g = g THEN log.cur ELSE [NoGroup EXCEPT !.g = g]

\* weight == "0": GetServerStat, then one write of scheduledDelete per entry
\* of the answer that matches the group and reports no buckets
WeightDrain ==
    /\ pc = "weight"
    /\ LET called == [Arrive(gi) EXCEPT !.calls = @ \cup {"GetServerStat"}]
       IN  \/ \* GetServerStat failed
              /\ stats' = <<>>
              /\ log' = [log EXCEPT
                            !.ev = Event("GetServerStat", gi, 0, "err", "none", "none"),
                            !.cur = [called EXCEPT !.stat = "err"]]
              /\ UNCHANGED <<sts, mem, stsWritten>>
           \/ \E data \in StatResponses :
                LET hits == StatHits(data, gi)
                    marked == [mem EXCEPT ![gi].scheduledDelete = "1"]
                IN  /\ stats' = data
                    /\ IF hits = {}
                       THEN /\ log' = [log EXCEPT
                                   !.ev = Event("GetServerStat", gi, 0, "ok", "none", "none"),
                                   !.cur = [called EXCEPT !.stat = "ok"]]
                            /\ UNCHANGED <<sts, mem, stsWritten>>
                       ELSE \E upd \in [hits -> WriteOutcomes] :
                            LET stored == \E k \in hits : upd[k] = "ok"
                                failed == \E k \in hits : upd[k] = "fail"
                            IN  /\ mem' = marked
                                /\ sts' = IF stored THEN StoreSts(gi, marked) ELSE sts
                                /\ stsWritten' = IF stored /\ sts' # sts
                                                 THEN stsWritten \cup {gi}
                                                 ELSE stsWritten
                                /\ log' = [log EXCEPT
                                      !.ev = Event("GetServerStat", gi, 0, "ok",
                                                   IF failed THEN "fail" ELSE "ok", "none"),
                                      !.cur = [called EXCEPT !.stat = "ok",
                                                             !.marked = TRUE,
                                                             !.stored = stored,
                                                             !.failed = failed]]
    /\ Goto(WPodPos(gi))
    /\ UNCHANGED <<pods, cluster, clientAddr, result>>

WeightGate_open(pod) == TRUE

\* if !tarantool.IsJoined(pod) { return }
WeightGate(pod) == IsJoined(pod)

WeightPod ==
    /\ pc = "wpod"
    /\ stats' = <<>>
    /\ LET p == <<gi, pi>>
           here == Arrive(gi)
       IN
       \E get \in GetOutcomes :
        CASE get # "ok" ->
                /\ Return(IF get = "notfound" THEN ResAfter ELSE ResErrAfter)
                /\ log' = [log EXCEPT !.ev = Event("Get", gi, pi, get, "none", "none"),
                                      !.cur = here]
          [] get = "ok" ->
                IF WeightGate(pods[p])
                THEN /\ log' = [log EXCEPT
                            !.ev = Event("IsJoined", gi, pi, "true", "none", "none"),
                            !.cur = [here EXCEPT !.wread =
                                        IF IsJoined(pods[p]) THEN @ \cup {p} ELSE @]]
                     /\ IF pi + 1 < Replicas(gi)
                        THEN Goto(At("wpod", gi, pi + 1))
                        ELSE Goto(At("setweight", gi, 0))
                     /\ UNCHANGED result
                ELSE /\ Return(ResAfter)
                     /\ log' = [log EXCEPT
                            !.ev = Event("IsJoined", gi, pi, "false", "none", "none"),
                            !.cur = here]
    /\ UNCHANGED <<store, mem, stsWritten, clientAddr>>

EditResponses == {"true", "false", "err"}

\* BuiltInTopologyService.SetWeight: "input" when the weight does not parse
\* (no request is made), else the classification of the round trip
SetWeight(weight, resp) ==
    IF ~ParseUintOK(weight) THEN "input"
    ELSE IF resp = "true" THEN "ok"
    ELSE "err"

\* BuiltInTopologyService.SetWeight reaches client.Run: the edit_replicaset
\* request goes out
SetWeightSends(weight) == ParseUintOK(weight)

SetGroupWeight ==
    /\ pc = "setweight"
    /\ stats' = <<>>
    /\ \E resp \in EditResponses :
        LET out == SetWeight(mem[gi].weight, resp) IN
        /\ log' = [log EXCEPT
                !.ev = Event("SetWeight", gi, 0, out, "none", "none"),
                !.cur = [Arrive(gi) EXCEPT !.calls =
                            @ \cup {"SetWeight"} \cup
                            (IF SetWeightSends(mem[gi].weight)
                             THEN {"edit_replicaset"} ELSE {})]]
        /\ IF out = "ok"
           THEN Goto(WeightPos(gi + 1)) /\ UNCHANGED result
           ELSE Return(ResErrAfter)
    /\ UNCHANGED <<store, mem, stsWritten, clientAddr>>

\* ----------------------------------------------------------------- roles
DesiredRoles == <<"storage", "router">>

\* answers of GetReplicasetRolesFromService; ok FALSE is an error
RoleResponses ==
    [ok : {TRUE}, roles : { <<"router", "storage">>, <<"storage", "router">>,
                            <<"storage">> }]
        \cup [ok : {FALSE}, roles : {<<>>}]

\* topology.GetRoles(&sts.ObjectMeta)
GetRoles(g) == DesiredRoles

\* utils.IsRolesEquals: equality as unordered collections
IsRolesEquals(a, b) ==
    {a[k] : k \in 1..Len(a)} = {b[k] : k \in 1..Len(b)}

RolesConverged_ordered(actual, g) == actual = GetRoles(g)

\* if utils.IsRolesEquals(actualRoles, desireRoles) { continue }
RolesConverged(actual, g) == IsRolesEquals(actual, GetRoles(g))

\* a step of the role stage, with the role list the service answered
RoleEvent(op, g, out, roles) ==
    [op |-> op, g |-> g, i |-> 0, out |-> out, write |-> "none",
     status |-> "none", roles |-> roles]

ConvergeRoles ==
    /\ pc = "role"
    /\ \E actual \in RoleResponses, set \in {"ok", "err"} :
        IF ~actual.ok
        THEN /\ Return(ResErrAfter)
             /\ log' = [log EXCEPT
                   !.ev = RoleEvent("GetReplicasetRolesFromService", gi, "err", <<>>),
                   !.cur = NoGroup]
        ELSE IF RolesConverged(actual.roles, gi)
        THEN /\ Goto(RolePos(gi + 1))
             /\ log' = [log EXCEPT
                   !.ev = RoleEvent("GetReplicasetRolesFromService", gi, "ok", actual.roles),
                   !.cur = NoGroup]
             /\ UNCHANGED result
        ELSE /\ log' = [log EXCEPT
                   !.ev = RoleEvent("SetReplicasetRoles", gi, set, actual.roles),
                   !.cur = NoGroup]
             /\ IF set = "ok"
                THEN Goto(RolePos(gi + 1)) /\ UNCHANGED result
                ELSE Return(ResErrAfter)
    /\ UNCHANGED <<store, mem, stsWritten, stats, clientAddr>>

\* ------------------------------------------------- bootstrap and failover
\* the decoded answer of the bootstrap_vshard request
BootstrapResponses ==
    [transport : {FALSE}, data : BOOLEAN, errors : {"none", "already", "other"}]
        \cup [transport : {TRUE}, data : {FALSE}, errors : {"none"}]

\* "already bootstrapped" is not told from other errors
BootstrapVshard_unclassified(resp) ==
    IF resp.transport THEN "err"
    ELSE IF resp.data THEN "ok"
    ELSE "err"

\* BuiltInTopologyService.BootstrapVshard
BootstrapVshard(resp) ==
    IF resp.transport THEN "err"
    ELSE IF resp.data THEN "ok"
    ELSE IF resp.errors = "already" THEN "already"
    ELSE "err"

IsAlreadyBootstrapped_never(out) == FALSE

IsAlreadyBootstrapped(out) == out = "already"

\* an Update of a StatefulSet read before the weight stage changed it in
\* the store carries a stale resourceVersion and is refused
StsWriteOutcomes(g) == IF g \in stsWritten THEN {"fail"} ELSE WriteOutcomes

IsBootstrapped_never(g) == FALSE

\* stsAnnotations["tarantool.io/isBootstrapped"] != "1" does not hold
IsBootstrapped(g) == mem[g].isBootstrapped = "1"

Bootstrap ==
    /\ pc = "boot"
    /\ IF IsBootstrapped(gi)
       THEN /\ Goto(At("failover", gi, 0))
            /\ log' = [log EXCEPT
                  !.ev = Event("isBootstrapped", gi, 0, "true", "none", "none")]
            /\ UNCHANGED <<sts, cluster, mem, result>>
       ELSE \E resp \in BootstrapResponses, upd \in StsWriteOutcomes(gi),
               st \in WriteOutcomes :
            LET out == BootstrapVshard(resp)
                flagged == [mem EXCEPT ![gi].isBootstrapped = "1"]
            IN  IF IsAlreadyBootstrapped(out)
                THEN /\ mem' = flagged
                     /\ sts' = IF upd = "ok" THEN StoreSts(gi, flagged) ELSE sts
                     /\ cluster' = IF st = "ok"
                                   THEN [cluster EXCEPT !.state = "Ready"]
                                   ELSE cluster
                     /\ log' = [log EXCEPT
                           !.ev = Event("BootstrapVshard", gi, 0, out, upd, st),
                           !.boots = @ + 1]
                     /\ Return(IF st = "ok" THEN ResAfter ELSE ResErrAfter)
                ELSE /\ log' = [log EXCEPT
                           !.ev = Event("BootstrapVshard", gi, 0, out, "none", "none"),
                           !.boots = @ + 1]
                     /\ UNCHANGED <<sts, cluster, mem>>
                     /\ IF out = "ok"
                        THEN Goto(At("failover", gi, 0)) /\ UNCHANGED result
                        ELSE Return(ResErrAfter)
    /\ UNCHANGED <<pods, stsWritten, stats, clientAddr>>

\* answers of the failover mutation: a decoded answer, or a failed round trip
FailoverResponses == {"true", "false", "err"}

\* BuiltInTopologyService.SetFailover: nil whenever the round trip succeeds
SetFailover(resp) == IF resp = "err" THEN "err" ELSE "ok"

FailoverEnabled_never(g) == FALSE

\* stsAnnotations["tarantool.io/failoverEnabled"] == "1"
FailoverEnabled(g) == mem[g].failoverEnabled = "1"

Failover ==
    /\ pc = "failover"
    /\ IF FailoverEnabled(gi)
       THEN /\ log' = [log EXCEPT
                  !.ev = Event("failoverEnabled", gi, 0, "true", "none", "none")]
            /\ UNCHANGED <<sts, mem>>
       ELSE \E resp \in FailoverResponses, upd \in StsWriteOutcomes(gi) :
            LET flagged == [mem EXCEPT ![gi].failoverEnabled = "1"] IN
            IF SetFailover(resp) = "ok"
            THEN /\ mem' = flagged
                 /\ sts' = IF upd = "ok" THEN StoreSts(gi, flagged) ELSE sts
                 /\ log' = [log EXCEPT
                       !.ev = Event("SetFailover", gi, 0, "ok", upd, "none")]
            ELSE /\ log' = [log EXCEPT
                       !.ev = Event("SetFailover", gi, 0, "err", "none", "none")]
                 /\ UNCHANGED <<sts, mem>>
    /\ IF gi + 1 > NumGroups
       THEN Return(ResDone)
       ELSE Goto(BootPos(gi + 1)) /\ UNCHANGED result
    /\ UNCHANGED <<pods, cluster, stsWritten, stats, clientAddr>>

Next ==
    \/ StartPass
    \/ ValidateLeader
    \/ SelectLeader
    \/ AssignUUID
    \/ JoinInstance
    \/ WeightDrain
    \/ WeightPod
    \/ SetGroupWeight
    \/ ConvergeRoles
    \/ Bootstrap
    \/ Failover

Spec == Init /\ [][Next]_vars

\* ---------------------------------------------------------------- claims
EventPod == <<log.ev.g, log.ev.i>>

\* pods a Join was attempted for in this pass
JoinAttempted == {p \in Pods : log.joinRes[p] # "none"}

\* C1: the joined marker of an instance is stored only by a step that is
\* the Join of that same instance with outcome success or AlreadyJoined.
C1_JoinedOnlyAfterJoin ==
    [][\A p \in Pods :
          (~pods[p].joined /\ pods'[p].joined) =>
              /\ log'.ev.op = "Join"
              /\ <<log'.ev.g, log'.ev.i>> = p
              /\ log'.ev.out \in {"ok", "already"}
              /\ log'.joinRes[p] \in {"ok", "already"}]_vars

C1_Witness ==
    \E p \in Pods :
        /\ pods[p].joined
        /\ log.ev.op = "Join"
        /\ EventPod = p
        /\ log.ev.out = "already"

\* C2: an instance-UUID label, once present, is never changed or removed
\* (the assignment step runs only on an instance without one), and a
\* joined marker, once present, is never cleared.
C2_Monotonic ==
    [][/\ \A p \in Pods :
            /\ pods[p].uuid # NoUUID => pods'[p].uuid = pods[p].uuid
            /\ pods[p].joined => pods'[p].joined
       /\ (pc = "uuid" /\ log'.ev.op = "SetInstanceUUID") =>
              pods[<<gi, pi>>].uuid = NoUUID]_vars

C2_Witness ==
    \E p \in Pods :
        /\ pods[p].uuid = PresetUUID
        /\ pods[p].joined
        /\ log.ev.op = "HasInstanceUUID"
        /\ EventPod = p

\* C3: a pass that assigns an instance UUID assigns exactly one, returns
\* with Requeue, and marks no instance of any group joined.
C3_OneMutationPerPass ==
    log.assigned # {} =>
        /\ Cardinality(log.assigned) = 1
        /\ pc = "done"
        /\ result = ResRequeue
        /\ MarkedInPass = {}

\* C4: at most one Join call is issued per pass, and the pass returns right
\* after it, whatever its outcome, before any later stage.
C4_OneJoinPerPass ==
    LET called == {p \in Pods : log.joinRes[p] \notin {"none", "input"}} IN
    /\ Cardinality(called) <= 1
    /\ called # {} => (pc = "done" /\ log.ev.op = "Join")

\* C5: a Join is attempted in a pass only when no instance of any group
\* lacks an instance UUID.
C5_JoinAfterAllAssigned ==
    JoinAttempted # {} => \A q \in ExistingPods : pods[q].uuid # NoUUID

\* C6: while a member of a group lacks the joined marker, the
\* weight stage makes no topology call for that group.
C6_Gating ==
    \A g \in Groups :
        (log.cur.g = g /\ \E p \in PodsOf(g) : ~pods[p].joined) =>
            log.cur.calls = {}

\* C7: SetWeight is called for a group only after the weight stage of the
\* pass read every instance of the group with the joined marker.
C7_SetWeightGated ==
    "SetWeight" \in log.cur.calls =>
        \A p \in PodsOf(log.cur.g) : p \in log.cur.wread /\ pods[p].joined

C7_Witness ==
    /\ "SetWeight" \in log.cur.calls
    /\ PodsOf(log.cur.g) # {}
    /\ log.ev.op = "SetWeight"

\* the entries of the answer at hand that are instances of group g
OwnEntries(g) ==
    {k \in 1..Len(stats) : \E p \in PodsOf(g) : stats[k].uri = AdvURI(p)}

\* C8: a group is not marked scheduled-for-deletion when the
\* statistics report buckets on one of its instances.
C8_NoMarkWithBuckets ==
    log.cur.marked => \A k \in OwnEntries(log.cur.g) : stats[k].bucketsCount = 0

\* the weight stage has just looked at the statistics for group g, which
\* list every instance of g with no buckets, all instances of g are
\* joined, and no write of the mark failed
DrainedAt(g) ==
    /\ log.ev.op = "GetServerStat"
    /\ log.ev.out = "ok"
    /\ log.ev.g = g
    /\ sts[g].weight = DrainWeight
    /\ \A p \in PodsOf(g) : pods[p].joined
    /\ \A p \in PodsOf(g) : \E k \in OwnEntries(g) : stats[k].uri = AdvURI(p)
    /\ \A k \in OwnEntries(g) : stats[k].bucketsCount = 0
    /\ ~log.cur.failed

OnlyDrainMarked ==
    \A g \in Groups :
        sts[g].weight # DrainWeight =>
            sts[g].scheduledDelete # "1" /\ mem[g].scheduledDelete # "1"

\* C9 as stated: a drained, fully joined group with no buckets is marked
\* scheduled-for-deletion; a group of another weight never is.
C9_DrainMarksGroup ==
    /\ \A g \in Groups : DrainedAt(g) => sts[g].scheduledDelete = "1"
    /\ OnlyDrainMarked

\* C9 amended: a drained, fully joined group that has at least one instance
\* and no buckets is marked scheduled-for-deletion, and the mark stays; a
\* group of another weight is never marked.
C9_DrainMarksNonEmptyGroup ==
    /\ [](/\ \A g \in Groups :
                (DrainedAt(g) /\ PodsOf(g) # {}) => sts[g].scheduledDelete = "1"
          /\ OnlyDrainMarked)
    /\ [][\A g \in Groups :
            sts[g].scheduledDelete = "1" => sts'[g].scheduledDelete = "1"]_vars

C9_Witness ==
    \E g \in Groups :
        /\ DrainedAt(g)
        /\ PodsOf(g) # {}
        /\ sts[g].scheduledDelete = "1"

C11_PlainSuccessTerminal ==
    (log.ev.op = "BootstrapVshard" /\ log.ev.out = "ok") =>
        /\ mem[log.ev.g].isBootstrapped = "1"
        /\ cluster.state = "Ready"

\* C12: the failover-enabled flag of a group turns "1" only in the step in
\* which SetFailover succeeded for the group, is never cleared, and once it
\* is "1" in the store SetFailover is not called for the group again.
C12_FailoverOneWay ==
    [][\A g \in Groups :
          /\ (sts[g].failoverEnabled # "1" /\ sts'[g].failoverEnabled = "1") =>
                 /\ log'.ev.op = "SetFailover"
                 /\ log'.ev.g = g
                 /\ log'.ev.out = "ok"
          /\ (mem[g].failoverEnabled # "1" /\ mem'[g].failoverEnabled = "1") =>
                 /\ pc # "failover" \/ (log'.ev.op = "SetFailover" /\ log'.ev.g = g
                                         /\ log'.ev.out = "ok")
                 /\ pc = "failover" \/ sts'[g].failoverEnabled = "1"
          /\ sts[g].failoverEnabled = "1" => sts'[g].failoverEnabled = "1"
          /\ (pc = "failover" /\ gi = g /\ sts[g].failoverEnabled = "1") =>
                 log'.ev.op = "failoverEnabled"]_vars

C12_Witness ==
    /\ log.ev.op = "failoverEnabled"
    /\ sts[log.ev.g].failoverEnabled = "1"

C14_Idempotent ==
    [][\A p \in Pods :
          (pods[p].uuid # NoUUID /\ pods[p].joined) =>
              /\ pods'[p] = pods[p]
              /\ log'.joinRes[p] \in {"none", log.joinRes[p]}
              /\ (pc \in {"uuid", "join"} /\ <<gi, pi>> = p) =>
                     log'.ev.op \in {"Get", "HasInstanceUUID", "IsJoined"}]_vars

C14_Witness ==
    \E p \in Pods :
        /\ pods[p].uuid # NoUUID
        /\ pods[p].joined
        /\ log.joinRes[p] = "none"
        /\ log.ev.op = "IsJoined"
        /\ EventPod = p
        /\ pc \in {"uuid", "join"}

CallsAndWrites ==
    {"Join", "SetInstanceUUID", "GetServerStat", "SetWeight",
     "GetReplicasetRolesFromService", "SetReplicasetRoles",
     "BootstrapVshard", "SetFailover"}

\* C16: after a Join classified TopologyServiceDown the instance stays
\* unjoined, the pass makes no later topology call and no store mutation,
\* and it ends without an error.
C16_DownEndsPass ==
    \A p \in Pods :
        log.joinRes[p] = "down" =>
            /\ ~pods[p].joined
            /\ log.ev.op \in CallsAndWrites => (log.ev.op = "Join" /\ EventPod = p)
            /\ pc = "done" => ~result.err

\* weight strings that are not a non-negative integer
InvalidWeights == { <<>>, <<"a", "b", "c">>, <<"-", "1">> }

\* C17: SetWeight with a weight that is not a non-negative integer returns
\* an input error with no request sent, and the pass returns the error
\* with the 5s requeue.
C17_BadWeightRejected ==
    /\ \A w \in InvalidWeights, resp \in EditResponses :
          ~ParseUintOK(w) /\ SetWeight(w, resp) = "input"
    /\ (log.ev.op = "SetWeight" /\ mem[log.ev.g].weight \in InvalidWeights) =>
          /\ log.ev.out = "input"
          /\ "edit_replicaset" \notin log.cur.calls
          /\ pc = "done"
          /\ result = ResErrAfter

C17_Witness ==
    /\ log.ev.op = "SetWeight"
    /\ mem[log.ev.g].weight = <<"a", "b", "c">>
    /\ PodsOf(log.ev.g) # {}
    /\ log.ev.out = "input"
    /\ pc = "done"

\* the elements of a role list
RoleSet(roles) == {roles[k] : k \in 1..Len(roles)}

\* C18: once the role stage has the actual roles of a group, it calls
\* SetReplicasetRoles exactly when they differ from the desired roles as
\* sets.
C18_RolesAsSets ==
    (\/ log.ev.op = "SetReplicasetRoles"
     \/ log.ev.op = "GetReplicasetRolesFromService" /\ log.ev.out = "ok") =>
        (log.ev.op = "SetReplicasetRoles" <=>
            RoleSet(log.ev.roles) # RoleSet(DesiredRoles))

C18_Witness ==
    /\ log.ev.op = "GetReplicasetRolesFromService"
    /\ log.ev.out = "ok"
    /\ log.ev.roles # DesiredRoles
    /\ RoleSet(log.ev.roles) = RoleSet(DesiredRoles)

\* addresses of instance zero of the non-empty groups
ValidLeaders == {LeaderAddr(g) : g \in {h \in Groups : sts[h].replicas # 0}}

\* C19: while the cached leader is the address of instance zero of a
\* non-empty group, the leader stage does not select a leader and does not
\* write the cluster object.
C19_NoReselection ==
    [][(pc \in {"leader", "select"} /\ cluster.leader \in ValidLeaders) =>
          /\ cluster' = cluster
          /\ pc' # "select"
          /\ log'.ev.op # "SelectTopologyLeader"]_vars

C19_Witness ==
    /\ log.ev.op = "IsTopologyLeaderExists"
    /\ log.ev.out = "true"
    /\ sts[1].replicas # 0
    /\ cluster.leader = LeaderAddr(2)

\* C20: when leader selection resolves no address (no non-empty group, or
\* instance zero of the first one cannot be read), the cluster object is
\* left as it was, the pass ends with no error and the 5s requeue, and it
\* has made no topology call.
C20_SelectionUnresolved ==
    [][pc = "select" =>
          /\ ValidLeaders = {} => log'.ev.out = "err"
          /\ (log'.ev.op = "SelectTopologyLeader" /\ log'.ev.out = "err") =>
                /\ cluster' = cluster
                /\ pc' = "done"
                /\ result' = ResAfter
                /\ clientAddr' = NoAddr
                /\ log'.joinRes = EmptyLog.joinRes
                /\ log'.cur = NoGroup]_vars

C20_Witness ==
    /\ log.ev.op = "SelectTopologyLeader"
    /\ log.ev.out = "err"
    /\ cluster.leader # NoAddr
    /\ ValidLeaders # {}
    /\ pc = "done"

\* positions of a pass at which the topology client has been built
ClientBuilt ==
    pc \in {"uuid", "join", "weight", "wpod", "setweight", "role", "boot",
            "failover"}

\* steps that call the topology service
TopologyCalls ==
    {"Join", "GetServerStat", "SetWeight", "GetReplicasetRolesFromService",
     "SetReplicasetRoles", "BootstrapVshard", "SetFailover"}

\* C21: in a pass that has built its topology client, and after every
\* topology call of the pass, the client is bound to the leader address the
\* Cluster object carries, which is the one the pass validated or selected.
C21_ClientBoundToLeader ==
    (ClientBuilt \/ log.ev.op \in TopologyCalls) => clientAddr = cluster.leader

\* the stage a position of the pass belongs to: leader, instance UUID and
\* join (1), weight (2), roles (3), bootstrap and failover (4)
StageOf(p) ==
    CASE p \in {"leader", "select", "uuid", "join"} -> 1
      [] p \in {"weight", "wpod", "setweight"} -> 2
      [] p = "role" -> 3
      [] p \in {"boot", "failover"} -> 4
      [] OTHER -> 0

\* C22: within a pass the stages follow one another in a fixed order and a
\* pass never goes back to an earlier stage; GetServerStat and SetWeight
\* are called only in the weight stage, GetReplicasetRolesFromService and
\* SetReplicasetRoles only in the role stage, BootstrapVshard and
\* SetFailover only in the last stage.
C22_StageOrder ==
    [][/\ (StageOf(pc) # 0 /\ StageOf(pc') # 0) => StageOf(pc') >= StageOf(pc)
       /\ StageOf(pc) = 0 => log'.ev.op = "List"
       /\ log'.ev.op \in {"GetServerStat", "SetWeight"} => StageOf(pc) = 2
       /\ log'.ev.op \in {"GetReplicasetRolesFromService", "SetReplicasetRoles"} =>
             StageOf(pc) = 3
       /\ log'.ev.op \in {"BootstrapVshard", "SetFailover"} => StageOf(pc) = 4]_vars

C22_Witness ==
    /\ log.ev.op = "BootstrapVshard"
    /\ pc = "failover"
    /\ gi = NumGroups

\* C23: when the weight stage finds a member of a group without the joined
\* marker, the pass does not end there: it goes on to the other groups and
\* to the later stages.
C23_StuckGroupSkipped ==
    (log.ev.op = "IsJoined" /\ log.ev.out = "false") => pc # "done"

\* C24: a failed write of a progress marker is the last step of its pass:
\* the pass has returned, with a retry, and no store write followed it.
C24_FailedWriteAborts ==
    log.ev.write = "fail" =>
        /\ pc = "done"
        /\ result # ResDone
        /\ log.ev.status = "none"

\* C30: SetWeight is not called for a group in the pass in which the weight
\* stage marked the group scheduled-for-deletion.
C30_NoSetWeightAfterMark ==
    "SetWeight" \in log.cur.calls => ~log.cur.marked

\* C26: BootstrapVshard is called at most once in a pass.
C26_OneBootstrapPerPass ==
    log.boots <= 1

\* C29: a Join whose request went out is classified AlreadyJoined exactly
\* when the round trip failed with a text holding "already joined",
\* TopologyServiceDown exactly when it failed with a text holding "This
\* instance isn't bootstrapped yet" and not "already joined", success
\* exactly when it completed with a true join result, and an unclassified
\* error in every other case; IsAlreadyJoined and IsTopologyDown are true
\* of the first and of the second class only.
C29_JoinClassification ==
    (log.ev.op = "Join" /\ log.ev.out # "input") =>
        LET r == log.ev.resp
            out == log.ev.out
            already == r.err /\ "already joined" \in r.phrases
            down == /\ r.err
                    /\ "already joined" \notin r.phrases
                    /\ "This instance isn't bootstrapped yet" \in r.phrases
        IN  /\ out \in {"already", "down", "ok", "err"}
            /\ out = "already" <=> already
            /\ out = "down" <=> down
            /\ out = "ok" <=> (~r.err /\ r.joinInstance)
            /\ (~r.err /\ ~r.joinInstance) => out = "err"
            /\ IsAlreadyJoined(out) <=> already
            /\ IsTopologyDown(out) <=> down

C29_Witness ==
    /\ log.ev.op = "Join"
    /\ log.ev.out = "already"
    /\ log.ev.resp.phrases = JoinPhrases
    /\ pods[EventPod].joined

\* C25: no pass panics, whatever the declared-state objects hold.
C25_NoPanic ==
    pc # "crashed"

\* ------------------------------------------------------ liveness of joining
\* what the last step met: every read and write of the store succeeded, the
\* instance carried the labels SetInstanceUUID and Join need, and the leader
\* was resolved when there is an instance to resolve it to
JoinAssumptions ==
    /\ log.ev.op = "List" => log.ev.out = "ok"
    /\ log.ev.op # "Get"
    /\ log.ev.op = "IsTopologyLeaderExists" => log.ev.out # "err"
    /\ log.ev.op = "SelectTopologyLeader" =>
          (log.ev.out = "ok" \/ ExistingPods = {})
    /\ log.ev.op = "SetInstanceUUID" => log.ev.out # "panic"
    /\ log.ev.op = "Join" => log.ev.out # "input"
    /\ log.ev.write # "fail"
    /\ log.ev.status # "fail"

JoinNext ==
    \/ StartPass /\ JoinAssumptions'
    \/ ValidateLeader /\ JoinAssumptions'
    \/ SelectLeader /\ JoinAssumptions'
    \/ AssignUUID /\ JoinAssumptions'
    \/ JoinInstance /\ JoinAssumptions'
    \/ WeightDrain /\ JoinAssumptions'
    \/ WeightPod /\ JoinAssumptions'
    \/ SetGroupWeight /\ JoinAssumptions'
    \/ ConvergeRoles /\ JoinAssumptions'
    \/ Bootstrap /\ JoinAssumptions'
    \/ Failover /\ JoinAssumptions'

\* the Join of instance p is answered with success or AlreadyJoined
JoinAnswered(p) ==
    /\ JoinInstance
    /\ <<gi, pi>> = p
    /\ log'.joinRes[p] \in {"ok", "already"}
    /\ JoinAssumptions'

\* passes keep running, and no instance has its Join refused forever
JoinSpec ==
    /\ Init
    /\ [][JoinNext]_vars
    /\ WF_vars(JoinNext)
    /\ \A p \in Pods : SF_vars(JoinAnswered(p))

\* C27: under these assumptions every declared instance of every group
\* eventually has an instance UUID and the joined marker, for good.
C27_EventuallyJoined ==
    <>[](\A p \in ExistingPods : pods[p].uuid # NoUUID /\ pods[p].joined)

C27_Witness ==
    /\ Cardinality(ExistingPods) = MaxPods
    /\ \A p \in ExistingPods : pods[p].uuid # NoUUID /\ pods[p].joined
    /\ \E p \in ExistingPods : pods[p].uuid = NewSHA1(PodName(p))

\* ---------------------------------------------------- liveness of bootstrap
\* what the last step met: every read of the store succeeded, the leader
\* was resolved, the instance carried its labels, Join, SetWeight and the
\* role calls succeeded, and a write failed only where the weight stage of
\* the same pass had changed the StatefulSet in the store
BootAssumptions ==
    /\ log.ev.op = "List" => log.ev.out = "ok"
    /\ log.ev.op # "Get"
    /\ log.ev.op = "IsTopologyLeaderExists" => log.ev.out # "err"
    /\ log.ev.op = "SelectTopologyLeader" => log.ev.out = "ok"
    /\ log.ev.op = "SetInstanceUUID" => log.ev.out # "panic"
    /\ log.ev.op = "Join" => log.ev.out \in {"ok", "already"}
    /\ log.ev.op = "SetWeight" => log.ev.out = "ok"
    /\ log.ev.op \in {"GetReplicasetRolesFromService", "SetReplicasetRoles"} =>
          log.ev.out # "err"
    /\ log.ev.write = "fail" =>
          (log.ev.op \in {"BootstrapVshard", "SetFailover"} /\ log.ev.g \in stsWritten)
    /\ log.ev.status # "fail"

\* there is an instance to lead the cluster, and every declared weight is
\* one SetWeight accepts
BootInit ==
    /\ Init
    /\ \E g \in Groups : sts[g].replicas # 0
    /\ \A g \in Groups : ParseUintOK(sts[g].weight)

BootNext ==
    \/ StartPass /\ BootAssumptions'
    \/ ValidateLeader /\ BootAssumptions'
    \/ SelectLeader /\ BootAssumptions'
    \/ AssignUUID /\ BootAssumptions'
    \/ JoinInstance /\ BootAssumptions'
    \/ WeightDrain /\ BootAssumptions'
    \/ WeightPod /\ BootAssumptions'
    \/ SetGroupWeight /\ BootAssumptions'
    \/ ConvergeRoles /\ BootAssumptions'
    \/ Bootstrap /\ BootAssumptions'
    \/ Failover /\ BootAssumptions'

\* BootstrapVshard, called at group g, is answered AlreadyBootstrapped
BootAnswered(g) ==
    /\ Bootstrap
    /\ gi = g
    /\ log'.ev.op = "BootstrapVshard"
    /\ log'.ev.out = "already"
    /\ BootAssumptions'

\* passes keep running, and the service does not withhold
\* AlreadyBootstrapped forever
BootSpec ==
    /\ BootInit
    /\ [][BootNext]_vars
    /\ WF_vars(BootNext)
    /\ \A g \in Groups : SF_vars(BootAnswered(g))

\* C28: under these assumptions the bootstrapped flag of every group is
\* eventually "1" in the store, and the cluster status eventually is Ready
\* and, once Ready, stays Ready.
C28_EventuallyBootstrapped ==
    /\ <>[](\A g \in Groups : sts[g].isBootstrapped = "1")
    /\ <>(cluster.state = "Ready")
    /\ [][cluster.state = "Ready" => cluster'.state = "Ready"]_vars

C28_Witness ==
    /\ \A g \in Groups : sts[g].isBootstrapped = "1"
    /\ cluster.state = "Ready"
    /\ pc = "done"
    /\ result = ResDone

\* -------------------------------------------------------------------- Expel
\* what the expel_server request hands back: a failed round trip, or a
\* decoded ExpelResponse with its data ("null" decodes to a nil Data) and
\* the length of its error list (a nil and an empty list are both 0)
ExpelResponses ==
    [transport : {FALSE}, data : {"null", "false", "true"}, errors : 0..2]
        \cup [transport : {TRUE}, data : {"false"}, errors : {0}]

\* BuiltInTopologyService.Expel: "ok" is a nil error; resp.Data.ExpelInstance
\* on a nil Data is a run-time panic
Expel(resp) ==
    IF resp.transport THEN "err"
    ELSE IF resp.data = "null" THEN "panic"
    ELSE IF resp.data = "false" /\ resp.errors = 0 THEN "err"
    ELSE "ok"

\* an Expel call for an instance, with the answer of the service
ExpelEvent(p, out, resp) ==
    [op |-> "Expel", g |-> p[1], i |-> p[2], out |-> out, write |-> "none",
     status |-> "none", resp |-> resp]

\* Expel is called for an instance while no pass is in flight
ExpelInstance ==
    /\ pc = "idle"
    /\ \E p \in ExistingPods, resp \in ExpelResponses :
          log' = [log EXCEPT !.ev = ExpelEvent(p, Expel(resp), resp)]
    /\ UNCHANGED <<sts, pods, cluster, pc, gi, pi, mem, stsWritten, stats,
                   clientAddr, result>>

ExpelSpec == Init /\ [][ExpelInstance]_vars

\* C31: Expel returns success only for an answer with expel_instance true.
C31_ExpelSuccessOnlyOnTrue ==
    (log.ev.op = "Expel" /\ log.ev.out = "ok") => log.ev.resp.data = "true"

\* C32: a group is marked scheduled-for-deletion only on a zero bucket
\* count reported for one of its own instances.
C32_MarkOnOwnStatistics ==
    (log.ev.op = "GetServerStat" /\ log.cur.marked) =>
        \E k \in OwnEntries(log.cur.g) : stats[k].bucketsCount = 0

\* C33: while the cluster status is Ready, some group has the bootstrapped
\* flag stored as "1".
C33_ReadyImpliesFlagStored ==
    cluster.state = "Ready" => \E g \in Groups : sts[g].isBootstrapped = "1"

\* the store is converged: the leader is valid, every instance has a UUID
\* and the joined marker, every group has a weight SetWeight accepts that
\* is not the drain weight, and both flags
Converged ==
    /\ cluster.leader \in ValidLeaders
    /\ \A p \in ExistingPods : pods[p].uuid # NoUUID /\ pods[p].joined
    /\ \A g \in Groups :
          /\ ParseUintOK(sts[g].weight)
          /\ sts[g].weight # DrainWeight
          /\ sts[g].isBootstrapped = "1"
          /\ sts[g].failoverEnabled = "1"

\* the step called SetReplicasetRoles although the role sets are equal
RolesSetInVain(ev) ==
    ev.op = "SetReplicasetRoles" /\ RoleSet(ev.roles) = RoleSet(DesiredRoles)

\* the step is a store read or a topology call that failed
FailedStep(ev) ==
    \/ ev.op = "List" /\ ev.out # "ok"
    \/ ev.op = "IsTopologyLeaderExists" /\ ev.out = "err"
    \/ ev.op = "Get"
    \/ ev.op = "SetWeight" /\ ev.out # "ok"
    \/ ev.op \in {"GetReplicasetRolesFromService", "SetReplicasetRoles"} /\ ev.out = "err"

====
